---- MODULE Spec2Model ----
(***************************************************************************)
(* Model of the project part of block.py: assign_project (greedy placement *)
(* of student groups on TAs), project_conflicts (post-allocation check)    *)
(* and update_project_history, driven run after run by run_project.        *)
(*                                                                         *)
(* TA logins and student logins are modelled as the integers 1..n; the     *)
(* integer order stands for the string order of the logins, which the code *)
(* uses only in min() over (load, ta) tuples.  A group is identified in an *)
(* assignment list by its position in student_pairs, so that two rows with *)
(* the same students stay distinguishable.                                 *)
(***************************************************************************)
EXTENDS Integers, Sequences, FiniteSets, TLC

\* ---- bounds -------------------------------------------------------------
NumStaff == 2
NumStudents == 1
MaxGroups == 2

Staff == 1..NumStaff
Students == 1..NumStudents

VARIABLES tas, blocks, history, student_pairs, ta2groups,
          max_groups_per_ta, idx, reported, pc, err

vars == <<tas, blocks, history, student_pairs, ta2groups,
          max_groups_per_ta, idx, reported, pc, err>>

\* ---- inputs -------------------------------------------------------------

\* The TA sets tas.csv can hold: n logins, n = 0 included.
TaSets == {1..n : n \in 0..NumStaff}

\* The group lists project_student_pairs.csv can hold: up to MaxGroups rows,
\* a row of blank cells giving the empty group.
GroupLists == UNION {[1..n -> SUBSET Students] : n \in 0..MaxGroups}

\* ---- helpers ------------------------------------------------------------

\* math.ceil(a / b) for b > 0
CeilDiv(a, b) == (a + b - 1) \div b

\* len(ta2groups[ta])
Load(t2g, ta) == Len(t2g[ta])

\* for student in pair: student in history[ta] or student in blocks[ta]
Conflicts(ta, pair, hist, blk) ==
    \E student \in pair : student \in hist[ta] \/ student \in blk[ta]

\* list.remove of the element at position i
RemoveAt(s, i) == [j \in 1..(Len(s) - 1) |-> IF j < i THEN s[j] ELSE s[j + 1]]

\* sorted(list(tas.copy()), key=load): every listing of tas in ascending
\* load; the order among equal loads is the set's iteration order, which
\* the code does not control.
SortedOptions(t2g, staff) ==
    {o \in [1..Cardinality(staff) -> staff] :
        /\ \A i, j \in DOMAIN o : i # j => o[i] # o[j]
        /\ \A i, j \in DOMAIN o : i < j => Load(t2g, o[i]) <= Load(t2g, o[j])}

\* The filtering loop: "for ta in options" walks the list by index while
\* the body removes the current element, so the element that follows a
\* removed one moves into the visited slot and is never examined.
RECURSIVE FilterFrom(_, _, _, _, _)
FilterFrom(options, i, pair, hist, blk) ==
    IF i > Len(options) THEN options
    ELSE IF Conflicts(options[i], pair, hist, blk)
         THEN FilterFrom(RemoveAt(options, i), i + 1, pair, hist, blk)
         ELSE FilterFrom(options, i + 1, pair, hist, blk)

FilterOptions(options, pair, hist, blk) == FilterFrom(options, 1, pair, hist, blk)

\* First-fit loop without its break: the group lands on every option that
\* is under capacity.
RECURSIVE PlaceFirstFitNoBreak(_, _, _, _, _)
PlaceFirstFitNoBreak(options, i, t2g, cap, g) ==
    IF i > Len(options) THEN t2g
    ELSE IF Load(t2g, options[i]) >= cap
         THEN PlaceFirstFitNoBreak(options, i + 1, t2g, cap, g)
         ELSE PlaceFirstFitNoBreak(options, i + 1,
                  [t2g EXCEPT ![options[i]] = Append(@, g)], cap, g)

\* for ta in options: skip a TA at capacity, append to the first one under
\* capacity and break.  The result equals t2g when group_placed stays False.
RECURSIVE PlaceFirstFit(_, _, _, _, _)
PlaceFirstFit(options, i, t2g, cap, g) ==
    IF i > Len(options) THEN t2g
    ELSE IF Load(t2g, options[i]) >= cap
         THEN PlaceFirstFit(options, i + 1, t2g, cap, g)
         ELSE [t2g EXCEPT ![options[i]] = Append(@, g)]

\* min([(len(ta2groups[t]), t) for t in options])[1]
SmallestOption(options, t2g) ==
    LET ts == {options[i] : i \in DOMAIN options}
    IN  CHOOSE t \in ts :
            \A u \in ts : \/ Load(t2g, t) < Load(t2g, u)
                          \/ Load(t2g, t) = Load(t2g, u) /\ t <= u

\* find_conflict(ta, student, blocks): a (ta, student) pair when the student
\* is in the TA's block set, a false value otherwise.
FindConflict(ta, student, blk) ==
    IF student \in blk[ta] THEN <<student, ta>> ELSE <<>>

\* The conflict check looking at the first group of every TA only.
ProjectConflictsFirstGroup(t2g, pairs, blk) ==
    \E ta \in DOMAIN t2g :
        /\ Len(t2g[ta]) > 0
        /\ \E student \in pairs[t2g[ta][1]] : FindConflict(ta, student, blk) # <<>>

\* project_conflicts(ta2groups, blocks)
ProjectConflicts(t2g, pairs, blk) ==
    \E ta \in DOMAIN t2g : \E k \in DOMAIN t2g[ta] :
        \E student \in pairs[t2g[ta][k]] : FindConflict(ta, student, blk) # <<>>

\* for pair in groups: for student in pair: curr_history[ta].add(student)
RECURSIVE AddGroups(_, _, _)
AddGroups(hist_ta, groups, pairs) ==
    IF groups = <<>> THEN hist_ta
    ELSE AddGroups(hist_ta \cup pairs[Head(groups)], Tail(groups), pairs)

\* update_project_history building each TA's set from the current allocation
\* alone, the prior set dropped.
UpdateProjectHistoryReset(curr_history, curr_groups, pairs) ==
    [ta \in DOMAIN curr_history |->
        IF ta \in DOMAIN curr_groups
        THEN AddGroups({}, curr_groups[ta], pairs)
        ELSE {}]

\* update_project_history(curr_history, curr_groups)
UpdateProjectHistory(curr_history, curr_groups, pairs) ==
    [ta \in DOMAIN curr_history |->
        IF ta \in DOMAIN curr_groups
        THEN AddGroups(curr_history[ta], curr_groups[ta], pairs)
        ELSE curr_history[ta]]

\* ---- state machine ------------------------------------------------------

\* project(False): blocks loaded for every TA of tas.csv, history empty for
\* every TA, the groups read, assign_project not yet entered.
Init ==
    /\ tas \in TaSets
    /\ blocks \in [tas -> SUBSET Students]
    /\ history = [ta \in tas |-> {}]
    /\ student_pairs \in GroupLists
    /\ ta2groups = [ta \in tas |-> <<>>]
    /\ max_groups_per_ta = 0
    /\ idx = 0
    /\ reported = {}
    /\ pc = "start"
    /\ err = "none"

\* The entry with the division guarded against an empty TA set: the loop
\* is entered with no TA.
AssignNoStaffGuarded ==
    /\ pc = "start"
    /\ Cardinality(tas) = 0
    /\ pc' = "loop"
    /\ UNCHANGED <<tas, blocks, history, student_pairs, ta2groups,
                   max_groups_per_ta, idx, reported, err>>

\* len(student_pairs)/len(tas) with no TA: ZeroDivisionError leaves
\* assign_project before the loop.
AssignNoStaff ==
    /\ pc = "start"
    /\ Cardinality(tas) = 0
    /\ pc' = "failed"
    /\ err' = "ZeroDivisionError"
    /\ UNCHANGED <<tas, blocks, history, student_pairs, ta2groups,
                   max_groups_per_ta, idx, reported>>

\* The capacity rounded down instead of up.
MaxGroupsFloor(n, m) == n \div m

\* max_groups_per_ta = math.ceil(len(student_pairs)/len(tas))
MaxGroupsPerTa(n, m) == CeilDiv(n, m)

\* Entry of assign_project: empty list per TA, capacity computed.
AssignStart ==
    /\ pc = "start"
    /\ Cardinality(tas) # 0
    /\ ta2groups' = [ta \in tas |-> <<>>]
    /\ max_groups_per_ta' = MaxGroupsPerTa(Len(student_pairs), Cardinality(tas))
    /\ idx' = 0
    /\ pc' = "loop"
    /\ UNCHANGED <<tas, blocks, history, student_pairs, reported, err>>

\* One iteration of "for pair in student_pairs" ending in the continue.
Unplaceable ==
    /\ pc = "loop"
    /\ idx < Len(student_pairs)
    /\ \E sorted \in SortedOptions(ta2groups, tas) :
          FilterOptions(sorted, student_pairs[idx + 1], history, blocks) = <<>>
    /\ reported' = reported \cup {idx + 1}
    /\ idx' = idx + 1
    /\ UNCHANGED <<tas, blocks, history, student_pairs, ta2groups,
                   max_groups_per_ta, pc, err>>

\* One iteration placing the group with the first option under capacity.
PlaceUnderCapacity ==
    /\ pc = "loop"
    /\ idx < Len(student_pairs)
    /\ \E sorted \in SortedOptions(ta2groups, tas) :
          LET options == FilterOptions(sorted, student_pairs[idx + 1], history, blocks)
              placed  == PlaceFirstFit(options, 1, ta2groups, max_groups_per_ta, idx + 1)
          IN  /\ options # <<>>
              /\ placed # ta2groups
              /\ ta2groups' = placed
    /\ idx' = idx + 1
    /\ UNCHANGED <<tas, blocks, history, student_pairs, max_groups_per_ta,
                   reported, pc, err>>

\* The override with the capacity kept hard: the group is left out.
PlaceOverCapacityDropped ==
    /\ pc = "loop"
    /\ idx < Len(student_pairs)
    /\ \E sorted \in SortedOptions(ta2groups, tas) :
          LET options == FilterOptions(sorted, student_pairs[idx + 1], history, blocks)
          IN  /\ options # <<>>
              /\ PlaceFirstFit(options, 1, ta2groups, max_groups_per_ta, idx + 1) = ta2groups
    /\ idx' = idx + 1
    /\ UNCHANGED <<tas, blocks, history, student_pairs, ta2groups,
                   max_groups_per_ta, reported, pc, err>>

\* One iteration in which every option is at capacity: the group goes to
\* the option with the fewest groups.
PlaceOverCapacity ==
    /\ pc = "loop"
    /\ idx < Len(student_pairs)
    /\ \E sorted \in SortedOptions(ta2groups, tas) :
          LET options == FilterOptions(sorted, student_pairs[idx + 1], history, blocks)
          IN  /\ options # <<>>
              /\ PlaceFirstFit(options, 1, ta2groups, max_groups_per_ta, idx + 1) = ta2groups
              /\ ta2groups' = [ta2groups EXCEPT
                                 ![SmallestOption(options, ta2groups)] = Append(@, idx + 1)]
    /\ idx' = idx + 1
    /\ UNCHANGED <<tas, blocks, history, student_pairs, max_groups_per_ta,
                   reported, pc, err>>

\* assert(not project_conflicts(ta2groups, blocks)) passes; return ta2groups
AssertPasses ==
    /\ pc = "loop"
    /\ idx = Len(student_pairs)
    /\ ~ProjectConflicts(ta2groups, student_pairs, blocks)
    /\ pc' = "returned"
    /\ UNCHANGED <<tas, blocks, history, student_pairs, ta2groups,
                   max_groups_per_ta, idx, reported, err>>

\* assert(not project_conflicts(ta2groups, blocks)) fails
AssertFails ==
    /\ pc = "loop"
    /\ idx = Len(student_pairs)
    /\ ProjectConflicts(ta2groups, student_pairs, blocks)
    /\ pc' = "failed"
    /\ err' = "AssertionError"
    /\ UNCHANGED <<tas, blocks, history, student_pairs, ta2groups,
                   max_groups_per_ta, idx, reported>>

\* run_project: update_project_history(history, ta2groups, history_file)
UpdateHistory ==
    /\ pc = "returned"
    /\ history' = UpdateProjectHistory(history, ta2groups, student_pairs)
    /\ pc' = "updated"
    /\ UNCHANGED <<tas, blocks, student_pairs, ta2groups,
                   max_groups_per_ta, idx, reported, err>>

\* project(True): the next term's groups, the history read back from the
\* file the previous run wrote.
NextRun ==
    /\ pc = "updated"
    /\ student_pairs' \in GroupLists
    /\ ta2groups' = [ta \in tas |-> <<>>]
    /\ max_groups_per_ta' = 0
    /\ idx' = 0
    /\ reported' = {}
    /\ pc' = "start"
    /\ UNCHANGED <<tas, blocks, history, err>>

Next ==
    \/ AssignNoStaff
    \/ AssignStart
    \/ Unplaceable
    \/ PlaceUnderCapacity
    \/ PlaceOverCapacity
    \/ AssertPasses
    \/ AssertFails
    \/ UpdateHistory
    \/ NextRun

Spec == Init /\ [][Next]_vars

\* ---- vocabulary of the properties ---------------------------------------

\* The students of the groups in ta's assignment list.
AssignedStudents(ta) ==
    UNION {student_pairs[ta2groups[ta][k]] : k \in DOMAIN ta2groups[ta]}

\* The number of places, over all assignment lists, holding group g.
Occurrences(g) ==
    Cardinality({p \in tas \X (1..Len(student_pairs)) :
                    /\ p[2] \in DOMAIN ta2groups[p[1]]
                    /\ ta2groups[p[1]][p[2]] = g})

\* ta has a student of group g in its block set or its history set.
Excluded(ta, g) ==
    student_pairs[g] \cap (blocks[ta] \cup history[ta]) # {}

\* Some assignment list holds a group with a student its TA blocks.
HasBlockConflict ==
    \E ta \in tas : AssignedStudents(ta) \cap blocks[ta] # {}

\* assign_project is running or has returned and history is still the
\* history it was called with.
InAssign == pc \in {"loop", "returned"} \/ err = "AssertionError"

\* ---- C1 -----------------------------------------------------------------
\* C1: the placement loop never appends a group to a TA whose block set
\* holds a student of the group, and the assertion closing assign_project
\* never fails.
NoBlockedPlacement ==
    /\ \A ta \in tas : AssignedStudents(ta) \cap blocks[ta] = {}
    /\ err # "AssertionError"

\* ---- C2 -----------------------------------------------------------------
\* C2: in every allocation assign_project returns, no group assigned to a
\* TA holds a student of that TA's pre-run history set.
NoRepeatInReturned ==
    pc = "returned" => \A ta \in tas : AssignedStudents(ta) \cap history[ta] = {}

\* ---- C3 -----------------------------------------------------------------
\* C3: round after round (assign_project, then update_project_history with
\* the round's allocation), the allocation a round records never gives a TA
\* a student of a group that TA was given in an earlier round.  The first
\* round starts from empty history sets, so history[ta] holds exactly the
\* students of ta's groups of the earlier rounds.
NoRepeatAcrossRounds ==
    [][(pc = "returned" /\ pc' = "updated") =>
          \A ta \in tas : AssignedStudents(ta) \cap history[ta] = {}]_vars

\* ---- C4 -----------------------------------------------------------------
\* C4: every group processed so far is either in exactly one place of
\* exactly one assignment list and not reported, or reported unplaceable
\* and in no list; a group not yet processed is in neither.  Once the loop
\* is over (idx = Len(student_pairs)) this covers the whole input list.
Coverage ==
    (tas # {} /\ pc # "start") =>
        \A g \in 1..Len(student_pairs) :
            IF g <= idx
            THEN \/ Occurrences(g) = 1 /\ g \notin reported
                 \/ Occurrences(g) = 0 /\ g \in reported
            ELSE Occurrences(g) = 0 /\ g \notin reported

\* A returned allocation with one group placed and another reported.
CoverageWitness ==
    /\ pc = "returned"
    /\ idx = Len(student_pairs)
    /\ reported # {}
    /\ \E g \in 1..Len(student_pairs) : Occurrences(g) = 1

\* ---- C5 -----------------------------------------------------------------
\* C5: a processed group of which every TA has a student in its block set
\* or history set is in no assignment list and is reported unplaceable.
UnplaceableWhenAllExcluded ==
    (tas # {} /\ InAssign) =>
        \A g \in 1..idx :
            (\A ta \in tas : Excluded(ta, g)) =>
                Occurrences(g) = 0 /\ g \in reported

\* ---- C6 -----------------------------------------------------------------
\* C6: a processed group that some TA has no block or history conflict
\* with is in an assignment list, whatever the loads are.
PlaceableNeverDropped ==
    (tas # {} /\ InAssign) =>
        \A g \in 1..idx :
            (\E ta \in tas : ~Excluded(ta, g)) => Occurrences(g) >= 1

\* A returned allocation in which every group was placeable and is placed,
\* one of them on a TA that was already at capacity.
PlaceableWitness ==
    /\ pc = "returned"
    /\ student_pairs # <<>>
    /\ \E ta \in tas : Load(ta2groups, ta) > max_groups_per_ta
    /\ \A g \in 1..Len(student_pairs) :
          (\E ta \in tas : ~Excluded(ta, g)) /\ Occurrences(g) = 1

\* ---- C7 -----------------------------------------------------------------
\* C7: a placement step gives the group to a TA whose load is already at
\* or above max_groups_per_ta only if every TA without block or history
\* conflict with the group is at or above it too; and when all block and
\* history sets are empty no load ever exceeds max_groups_per_ta.
BalanceBound ==
    /\ [][\A ta \in tas :
            (/\ pc = "loop"
             /\ Load(ta2groups', ta) > Load(ta2groups, ta)
             /\ Load(ta2groups, ta) >= max_groups_per_ta)
            => \A t \in tas :
                  ~Excluded(t, idx + 1) => Load(ta2groups, t) >= max_groups_per_ta]_vars
    /\ []((/\ pc \in {"loop", "returned"}
           /\ \A t \in tas : blocks[t] = {} /\ history[t] = {})
          => \A ta \in tas : Load(ta2groups, ta) <= max_groups_per_ta)

\* A TA pushed over capacity while another TA, excluded for the group,
\* stays under it.
BalanceWitness ==
    /\ pc = "loop"
    /\ \E ta, t \in tas :
          /\ Load(ta2groups, ta) > max_groups_per_ta
          /\ Load(ta2groups, t) < max_groups_per_ta
          /\ Excluded(t, ta2groups[ta][Len(ta2groups[ta])])

\* ---- C8 -----------------------------------------------------------------
\* C8 as stated: with no TA, assign_project fails with a ConfigurationError.
NoStaffConfigurationError ==
    (tas = {} /\ pc = "failed") => err = "ConfigurationError"

\* C8 amended: with no TA, assign_project never gets past its entry; it
\* fails there with the ZeroDivisionError of the capacity computation, no
\* group processed, reported or assigned, whatever the group list.
NoStaffZeroDivision ==
    tas = {} =>
        /\ pc \in {"start", "failed"}
        /\ idx = 0 /\ reported = {}
        /\ pc = "failed" => err = "ZeroDivisionError"

\* The failure on an empty TA set and an empty group list (0/0).
NoStaffWitness ==
    tas = {} /\ student_pairs = <<>> /\ pc = "failed" /\ err = "ZeroDivisionError"

\* ---- C9 -----------------------------------------------------------------
\* C9: update_project_history leaves every TA with exactly the union of
\* the TA's prior set and the students of the groups assigned to the TA;
\* no step of the program ever shrinks a history set.
HistoryUnion ==
    [][/\ (pc = "returned" /\ pc' = "updated") =>
             \A ta \in tas : history'[ta] = history[ta] \cup AssignedStudents(ta)
       /\ \A ta \in tas : history[ta] \subseteq history'[ta]]_vars

\* After an update: one TA with groups, another with none whose earlier
\* history is still there.
HistoryWitness ==
    /\ pc = "updated"
    /\ \E ta, t \in tas :
          /\ ta2groups[ta] # <<>> /\ AssignedStudents(ta) # {}
          /\ ta2groups[t] = <<>> /\ history[t] # {}

\* ---- C10 ----------------------------------------------------------------
\* C10: an allocation assign_project returns holds no block conflict, and
\* a run with TAs that did not return failed on the assertion, with a block
\* conflict in the lists.
NoConflictReturned ==
    /\ pc \in {"returned", "updated"} => ~HasBlockConflict
    /\ (pc = "failed" /\ tas # {}) => err = "AssertionError" /\ HasBlockConflict

\* A run aborted by the assertion, the conflict in the second group of a
\* list whose first group is clean.
AbortWitness ==
    /\ pc = "failed" /\ err = "AssertionError"
    /\ \E ta \in tas :
          /\ Len(ta2groups[ta]) = 2
          /\ student_pairs[ta2groups[ta][1]] \cap blocks[ta] = {}
          /\ student_pairs[ta2groups[ta][2]] \cap blocks[ta] # {}

====
